---- MODULE Spec2Model ----
(***************************************************************************)
(* Model of mgdb-migrator's Migrator class (migration.ts):                 *)
(* the in-memory migration list, the control document                      *)
(* { _id: 'control', version, locked } of the migrations collection, and   *)
(* migrateTo/execute cut at their await points.  One action is one store   *)
(* operation taking effect, together with the synchronous code that runs   *)
(* from its resolution up to the next await.  List indexes are the code's  *)
(* 0-based indexes; At(idx) reads this.list[idx].                          *)
(***************************************************************************)
EXTENDS Integers, Sequences, FiniteSets, TLC

\* ---------------------------------------------------------------- bounds
\* Largest version number a caller registers or asks for.
MaxVersion == 3
\* Largest number of migrations add() is called with successfully.
MaxMigrations == 2

\* Two engine instances (callers) share one control document.
Procs == {1, 2}

VARIABLES
    list,        \* this.list: sequence of migrations, sentinel first
    addOutcome,  \* how the add() call just made ended, "none" otherwise
    control,     \* the control document of the collection
    pc,          \* per caller: the await at which its migrateTo stands
    loc,         \* per caller: locals of migrateTo/execute
    invoked,     \* per caller: up/down invocations of its current call
    result,      \* per caller: how its last migrateTo settled
    background,  \* per caller: a not-awaited migrate() still running
    unlockInFlight \* an updateOne issued by unlock() and not yet applied

vars == <<list, addOutcome, control, pc, loc, invoked, result, background,
          unlockInFlight>>

\* ------------------------------------------------------------- registry
\* up/down values: "resolve" and "reject" are functions with a fixed
\* outcome, "function" is a caller-supplied function (it may resolve or
\* reject when invoked), "none" is a value that is not a function.
defaultMigration ==
    [version |-> 0, typeofVersion |-> "number",
     up |-> "resolve", down |-> "reject"]

IsFunction(f) == f \in {"resolve", "reject", "function"}

\* Arguments add() is called with: every version from 0 up with up and
\* down given or not, a negative version, and a version that is no number.
AddArgs ==
    [version : 0 .. MaxVersion, typeofVersion : {"number"},
     up : {"function", "none"}, down : {"function", "none"}]
    \cup {[version |-> -1, typeofVersion |-> "number",
           up |-> "function", down |-> "function"],
          [version |-> 1, typeofVersion |-> "string",
           up |-> "function", down |-> "function"]}

\* this.list[idx], undefined when idx is outside the array
Defined(idx) == idx >= 0 /\ idx < Len(list)
At(idx) == list[idx + 1]

\* _.sortBy(list, m => m.version): a stable sort, ascending by version.
RECURSIVE InsertSorted(_, _)
InsertSorted(s, m) ==
    IF s = <<>> THEN <<m>>
    ELSE IF Head(s).version <= m.version
         THEN <<Head(s)>> \o InsertSorted(Tail(s), m)
         ELSE <<m>> \o s

\* A sortBy that leaves the array in insertion order.
sortByInsertionOrder(s) == s

RECURSIVE sortBy(_)
sortBy(s) ==
    IF s = <<>> THEN <<>>
    ELSE InsertSorted(sortBy(SubSeq(s, 1, Len(s) - 1)), s[Len(s)])

\* add() without its check of the version's sign.
AddCheckNoVersionBound(m) ==
    IF ~IsFunction(m.up) THEN "Migration must supply an up function."
    ELSE IF ~IsFunction(m.down) THEN "Migration must supply a down function."
    ELSE IF m.typeofVersion # "number"
         THEN "Migration must supply a version number."
    ELSE "ok"

\* The validation of add(): the error it throws, or "ok".
AddCheck(m) ==
    IF ~IsFunction(m.up) THEN "Migration must supply an up function."
    ELSE IF ~IsFunction(m.down) THEN "Migration must supply a down function."
    ELSE IF m.typeofVersion # "number"
         THEN "Migration must supply a version number."
    ELSE IF m.version <= 0 THEN "Migration version must be greater than 0"
    ELSE "ok"

getNumberOfMigrations == Len(list) - 1

\* A lookup that answers index 0 for a version the list does not carry.
findIndexByVersionOrZero(version) ==
    IF \E k \in 0 .. Len(list) - 1 : At(k).version = version
    THEN CHOOSE k \in 0 .. Len(list) - 1 :
            /\ At(k).version = version
            /\ \A j \in 0 .. k - 1 : At(j).version # version
    ELSE 0

\* findIndexByVersion: the first index carrying the version, -1 for the
\* throw "Can't find migration version".
findIndexByVersion(version) ==
    IF \E k \in 0 .. Len(list) - 1 : At(k).version = version
    THEN CHOOSE k \in 0 .. Len(list) - 1 :
            /\ At(k).version = version
            /\ \A j \in 0 .. k - 1 : At(j).version # version
    ELSE -1

\* The version of the first list entry.
FirstVersion == list[1].version

\* _.last(this.list).version
LatestVersion == list[Len(list)].version

\* ------------------------------------------------------- control record
NoControl == [exists |-> FALSE, version |-> 0, locked |-> FALSE]

\* setControl: updateOne({_id}, {$set: {locked, version}}, {upsert: true})
setControl(c) == [exists |-> TRUE, version |-> c.version, locked |-> c.locked]

\* A filter {_id} that does not look at the locked field.
LockMatchesAnyControl == control.exists

\* The filter {_id, locked: false} of lock()'s findOneAndUpdate matches.
LockMatches == control.exists /\ ~control.locked

\* ---------------------------------------------------------------- calls
\* The decimal strings a command can start with, as sequences of digits:
\* every one-digit version, and "01".
VersionTexts == {<<d>> : d \in 0 .. MaxVersion + 1} \cup {<<0, 1>>}

\* A command is a number, or a string 'latest', '<digits>' or
\* '<digits>,rerun'.
Commands ==
    [kind : {"number"}, version : 0 .. MaxVersion + 1, text : {<<>>},
     sub : {"none"}]
    \cup [kind : {"string"}, version : {0}, text : VersionTexts,
          sub : {"none", "rerun"}]
    \cup {[kind |-> "latest", version |-> 0, text |-> <<>>, sub |-> "none"]}

\* The decimal string of a non-negative integer (the 'version as string'
\* parseInt is given when the command is a number).
RECURSIVE toString(_)
toString(n) ==
    IF n < 10 THEN <<n>> ELSE Append(toString(n \div 10), n % 10)

\* parseInt(text, null) on a string of decimal digits.
RECURSIVE parseInt(_)
parseInt(text) ==
    IF Len(text) = 1
    THEN text[1]
    ELSE 10 * parseInt(SubSeq(text, 1, Len(text) - 1)) + text[Len(text)]

NoLoc ==
    [version |-> 0, rerun |-> FALSE, currentVersion |-> 0, i |-> 0,
     endIdx |-> 0, start |-> NoControl, acquired |-> FALSE,
     afterUnlock |-> FALSE, concurrent |-> FALSE,
     before |-> NoControl, got |-> -1, latest |-> FALSE]

\* The locals a settled call leaves behind: the loop variables are gone.
Returned(l) == [l EXCEPT !.currentVersion = 0, !.i = 0, !.endIdx = 0]

Idle == \A p \in Procs : pc[p] = "idle"

Init ==
    /\ list = <<defaultMigration>>
    /\ addOutcome = "none"
    /\ control = NoControl
    /\ pc = [p \in Procs |-> "idle"]
    /\ loc = [p \in Procs |-> NoLoc]
    /\ invoked = [p \in Procs |-> <<>>]
    /\ result = [p \in Procs |-> "none"]
    /\ background = [p \in Procs |-> FALSE]
    /\ unlockInFlight = FALSE

\* new Migrator(opts) in a new process, after the process before it has
\* ended: the list is the sentinel alone, the collection is as it was left.
constructor ==
    /\ Idle
    /\ list' = <<defaultMigration>>
    /\ addOutcome' = "none"
    /\ loc' = [p \in Procs |-> NoLoc]
    /\ invoked' = [p \in Procs |-> <<>>]
    /\ result' = [p \in Procs |-> "none"]
    /\ background' = [p \in Procs |-> FALSE]
    /\ UNCHANGED <<control, pc, unlockInFlight>>

\* add(migration), called between migrations.
add(m) ==
    /\ Idle
    /\ IF AddCheck(m) = "ok"
       THEN /\ getNumberOfMigrations < MaxMigrations
            /\ list' = sortBy(Append(list, m))
            /\ addOutcome' = "ok"
       ELSE /\ list' = list
            /\ addOutcome' = AddCheck(m)
    /\ UNCHANGED <<control, pc, loc, invoked, result, background,
                   unlockInFlight>>

\* ------------------------------------------------------------ migrateTo
\* execute(version, rerun) as migrateTo calls it: 'latest' is the last
\* list entry's version and never a rerun.
TargetVersion(cmd) ==
    IF cmd.kind = "latest" THEN LatestVersion
    ELSE IF cmd.kind = "number" THEN parseInt(toString(cmd.version))
    ELSE parseInt(cmd.text)

TargetRerun(cmd) == cmd.kind # "latest" /\ cmd.sub = "rerun"

\* migrateTo(command) up to the findOne of getControl.
migrateTo(p, cmd) ==
    /\ pc[p] = "idle"
    /\ pc' = [pc EXCEPT ![p] = "getControl"]
    /\ loc' = [q \in Procs |->
                 IF q = p
                 THEN [NoLoc EXCEPT !.version = TargetVersion(cmd),
                                    !.rerun = TargetRerun(cmd),
                                    !.latest = (cmd.kind = "latest"),
                                    !.start = control,
                                    !.afterUnlock = unlockInFlight,
                                    !.concurrent = ~Idle]
                 ELSE IF pc[q] # "idle"
                      THEN [loc[q] EXCEPT !.concurrent = TRUE]
                      ELSE loc[q]]
    /\ invoked' = [invoked EXCEPT ![p] = <<>>]
    /\ result' = [result EXCEPT ![p] = "none"]
    /\ addOutcome' = "none"
    /\ UNCHANGED <<list, control, background, unlockInFlight>>

\* getControl: findOne answers; an absent document leads to setControl.
getControl(p) ==
    /\ pc[p] = "getControl"
    /\ IF control.exists
       THEN /\ pc' = [pc EXCEPT ![p] = "lock"]
            /\ loc' = [loc EXCEPT ![p].currentVersion = control.version]
       ELSE /\ pc' = [pc EXCEPT ![p] = "setControl"]
            /\ loc' = loc
    /\ UNCHANGED <<list, addOutcome, control, invoked, result, background,
                   unlockInFlight>>

\* A getControl that creates the control at version 1.
InitialControlAtOne == [locked |-> FALSE, version |-> 1]

\* The control getControl creates when findOne found none.
InitialControl == [locked |-> FALSE, version |-> 0]

\* getControl: the upsert of setControl({locked: false, version: 0}).
getControlUpsert(p) ==
    /\ pc[p] = "setControl"
    /\ control' = setControl(InitialControl)
    /\ pc' = [pc EXCEPT ![p] = "lock"]
    /\ loc' = [loc EXCEPT ![p].currentVersion = InitialControl.version]
    /\ UNCHANGED <<list, addOutcome, invoked, result, background,
                   unlockInFlight>>

\* ----------------------------------------------------------- getVersion
\* getVersion() up to the findOne of getControl; before is the control
\* document at the call, got the number the call returns.
getVersion(p) ==
    /\ pc[p] = "idle"
    /\ pc' = [pc EXCEPT ![p] = "getVersion"]
    /\ loc' = [q \in Procs |->
                 IF q = p
                 THEN [NoLoc EXCEPT !.before = control,
                                    !.concurrent = ~Idle]
                 ELSE IF pc[q] # "idle"
                      THEN [loc[q] EXCEPT !.concurrent = TRUE]
                      ELSE loc[q]]
    /\ invoked' = [invoked EXCEPT ![p] = <<>>]
    /\ result' = [result EXCEPT ![p] = "none"]
    /\ addOutcome' = "none"
    /\ UNCHANGED <<list, control, background, unlockInFlight>>

\* getVersion: findOne answers; the document found is returned, an absent
\* one leads to setControl.
getVersionFind(p) ==
    /\ pc[p] = "getVersion"
    /\ IF control.exists
       THEN /\ pc' = [pc EXCEPT ![p] = "idle"]
            /\ loc' = [loc EXCEPT ![p].got = control.version]
            /\ result' = [result EXCEPT ![p] = "ok"]
       ELSE /\ pc' = [pc EXCEPT ![p] = "getVersionSet"]
            /\ UNCHANGED <<loc, result>>
    /\ UNCHANGED <<list, addOutcome, control, invoked, background,
                   unlockInFlight>>

\* getVersion: the upsert of setControl({locked: false, version: 0}) is
\* acknowledged and setControl returns the control it was given.
getVersionUpsert(p) ==
    /\ pc[p] = "getVersionSet"
    /\ control' = setControl(InitialControl)
    /\ pc' = [pc EXCEPT ![p] = "idle"]
    /\ loc' = [loc EXCEPT ![p].got = InitialControl.version]
    /\ result' = [result EXCEPT ![p] = "ok"]
    /\ UNCHANGED <<list, addOutcome, invoked, background, unlockInFlight>>

\* A rerun branch that looks the version up in the list.
RerunIdxByLookup(version) == findIndexByVersion(version)

\* migrate('up', version) of the rerun branch: the list index it reads.
RerunIdx(version) == version

\* The loop conditions of the two walks.
UpContinues(i, endIdx) == i < endIdx
\* A descending loop that also runs the iteration at endIdx.
DownContinuesThroughEnd(i, endIdx) == i >= endIdx

DownContinues(i, endIdx) == i > endIdx

\* The list index whose action a loop iteration invokes.
UpIdx(i) == i + 1
DownIdx(i) == i

\* An ascending iteration that records the version it started from.
UpReachedStale(i) == At(i).version

\* The version a completed iteration makes the current version.
UpReached(i) == At(i + 1).version
DownReached(i) == At(i - 1).version

\* migrate(direction, idx) invoking migration[direction]; every list entry
\* passed add()'s typeof checks and is frozen, so migrate's own typeof
\* check never fails on an entry of the list.
Invocation(dir, idx) == [dir |-> dir, idx |-> idx, version |-> At(idx).version]

\* The walk from loop index i: invoke the next action or go to unlock().
\* Gives <<pc, invocations>>.
WalkFrom(dir, i, endIdx) ==
    IF dir = "up"
    THEN IF UpContinues(i, endIdx)
         THEN <<"up", <<Invocation("up", UpIdx(i))>> >>
         ELSE <<"unlock", <<>> >>
    ELSE IF DownContinues(i, endIdx)
         THEN <<"down", <<Invocation("down", DownIdx(i))>> >>
         ELSE <<"unlock", <<>> >>

\* lock(): the findOneAndUpdate answers, then execute runs to its next
\* await: the not-migrating return, the rerun branch, the already-at-version
\* branch, findIndexByVersion, and the first iteration of a walk.
lock(p) ==
    /\ pc[p] = "lock"
    /\ LET l == loc[p]
           startIdx == findIndexByVersion(l.currentVersion)
           endIdx == findIndexByVersion(l.version)
           dir == IF l.currentVersion < l.version THEN "up" ELSE "down"
           walk == WalkFrom(dir, startIdx, endIdx)
       IN
       IF ~LockMatches
       THEN \* 'Not migrating, control is locked.'
            /\ pc' = [pc EXCEPT ![p] = "idle"]
            /\ result' = [result EXCEPT ![p] = "ok"]
            /\ loc' = [loc EXCEPT ![p] = Returned(l)]
            /\ UNCHANGED <<control, invoked, background>>
       ELSE
         /\ control' = [control EXCEPT !.locked = TRUE]
         /\ IF l.rerun
            THEN \* migrate('up', version) is not awaited; unlock() follows
                 /\ pc' = [pc EXCEPT ![p] = "unlock"]
                 /\ loc' = [loc EXCEPT ![p].acquired = TRUE]
                 /\ result' = result
                 /\ IF Defined(RerunIdx(l.version))
                    THEN /\ invoked' = [invoked EXCEPT ![p] =
                               <<Invocation("up", RerunIdx(l.version))>>]
                         /\ background' = [background EXCEPT ![p] = TRUE]
                    ELSE \* the rejection of migrate() is dropped
                         UNCHANGED <<invoked, background>>
            ELSE IF l.currentVersion = l.version
            THEN /\ pc' = [pc EXCEPT ![p] = "unlock"]
                 /\ loc' = [loc EXCEPT ![p].acquired = TRUE]
                 /\ UNCHANGED <<invoked, result, background>>
            ELSE IF startIdx = -1 \/ endIdx = -1
            THEN \* findIndexByVersion throws, migrateTo rethrows
                 /\ pc' = [pc EXCEPT ![p] = "idle"]
                 /\ loc' = [loc EXCEPT ![p] =
                              Returned([l EXCEPT !.acquired = TRUE])]
                 /\ result' = [result EXCEPT ![p] = "error"]
                 /\ UNCHANGED <<invoked, background>>
            ELSE /\ pc' = [pc EXCEPT ![p] = walk[1]]
                 /\ loc' = [loc EXCEPT ![p].acquired = TRUE,
                                       ![p].i = startIdx,
                                       ![p].endIdx = endIdx]
                 /\ invoked' = [invoked EXCEPT ![p] = walk[2]]
                 /\ UNCHANGED <<result, background>>
    /\ UNCHANGED <<list, addOutcome, unlockInFlight>>

\* The outcomes an invocation of an up/down value can have.
Outcomes(f) ==
    IF f = "resolve" THEN {"resolve"}
    ELSE IF f = "reject" THEN {"reject"}
    ELSE {"resolve", "reject"}

\* The action invoked by the iteration at which caller p stands.
Running(p) ==
    IF pc[p] = "up" THEN At(UpIdx(loc[p].i)).up
    ELSE At(DownIdx(loc[p].i)).down

\* await migrate(direction, idx) resolves: currentVersion moves and
\* updateVersion() is issued.
migrateResolves(p) ==
    /\ pc[p] \in {"up", "down"}
    /\ "resolve" \in Outcomes(Running(p))
    /\ loc' = [loc EXCEPT ![p].currentVersion =
                 IF pc[p] = "up" THEN UpReached(loc[p].i)
                 ELSE DownReached(loc[p].i)]
    /\ pc' = [pc EXCEPT ![p] =
                 IF pc[p] = "up" THEN "updateVersionUp"
                 ELSE "updateVersionDown"]
    /\ UNCHANGED <<list, addOutcome, control, invoked, result, background,
                   unlockInFlight>>

\* Catch blocks that release the lock before rethrowing.
ControlUnlockedAfterReject(c) == [c EXCEPT !.locked = FALSE]

\* What the catch blocks of the walks do to the control document: they log
\* and rethrow.
ControlAfterReject(c) == c

\* await migrate(direction, idx) rejects: the catch block logs and
\* rethrows, migrateTo logs and rethrows.
migrateRejects(p) ==
    /\ pc[p] \in {"up", "down"}
    /\ "reject" \in Outcomes(Running(p))
    /\ control' = ControlAfterReject(control)
    /\ pc' = [pc EXCEPT ![p] = "idle"]
    /\ result' = [result EXCEPT ![p] = "error"]
    /\ loc' = [loc EXCEPT ![p] = Returned(loc[p])]
    /\ UNCHANGED <<list, addOutcome, invoked, background, unlockInFlight>>

\* An updateVersion() that saves the version and drops the lock.
UpdateVersionControlUnlocked(currentVersion) ==
    [locked |-> FALSE, version |-> currentVersion]

\* The control updateVersion() saves.
UpdateVersionControl(currentVersion) ==
    [locked |-> TRUE, version |-> currentVersion]

\* An unlock() that saves the version and keeps the lock.
UnlockControlKeepsLock(currentVersion) ==
    [locked |-> TRUE, version |-> currentVersion]

\* The control execute's unlock() saves.
UnlockControl(currentVersion) ==
    [locked |-> FALSE, version |-> currentVersion]

\* updateVersion(): the upsert takes effect, the loop steps and either
\* invokes the next action or issues unlock().
updateVersion(p) ==
    /\ pc[p] \in {"updateVersionUp", "updateVersionDown"}
    /\ control' = setControl(UpdateVersionControl(loc[p].currentVersion))
    /\ LET dir == IF pc[p] = "updateVersionUp" THEN "up" ELSE "down"
           i == IF dir = "up" THEN loc[p].i + 1 ELSE loc[p].i - 1
           walk == WalkFrom(dir, i, loc[p].endIdx)
       IN /\ pc' = [pc EXCEPT ![p] = walk[1]]
          /\ loc' = [loc EXCEPT ![p].i = i]
          /\ invoked' = [invoked EXCEPT ![p] = invoked[p] \o walk[2]]
    /\ UNCHANGED <<list, addOutcome, result, background, unlockInFlight>>

\* execute's unlock(): the upsert takes effect and execute returns.
unlock(p) ==
    /\ pc[p] = "unlock"
    /\ control' = setControl(UnlockControl(loc[p].currentVersion))
    /\ pc' = [pc EXCEPT ![p] = "idle"]
    /\ result' = [result EXCEPT ![p] = "ok"]
    /\ loc' = [loc EXCEPT ![p] = Returned(loc[p])]
    /\ UNCHANGED <<list, addOutcome, invoked, background, unlockInFlight>>

\* The not-awaited migrate() of a rerun settles; nothing observes it.
backgroundSettles(p) ==
    /\ background[p]
    /\ background' = [background EXCEPT ![p] = FALSE]
    /\ UNCHANGED <<list, addOutcome, control, pc, loc, invoked, result,
                   unlockInFlight>>

\* The not-awaited migrate() of caller p's rerun rejects: the up it invoked
\* has failed. The rejection has no handler; execute goes on or has
\* returned. Index 0 always holds the sentinel and every other index a
\* registered migration, so the entry at the index tells what the up can do.
backgroundRejects(p) ==
    /\ background[p]
    /\ loc[p].rerun /\ invoked[p] # <<>>
    /\ "reject" \in Outcomes(At(invoked[p][1].idx).up)
    /\ background' = [background EXCEPT ![p] = FALSE]
    /\ UNCHANGED <<list, addOutcome, control, pc, loc, invoked, result,
                   unlockInFlight>>

\* A dying process whose lock is released for it.
crashReleasesLock(p) ==
    /\ pc[p] # "idle"
    /\ pc' = [pc EXCEPT ![p] = "idle"]
    /\ result' = [result EXCEPT ![p] = "crashed"]
    /\ background' = [background EXCEPT ![p] = FALSE]
    /\ loc' = [loc EXCEPT ![p] = Returned(loc[p])]
    /\ control' = [control EXCEPT !.locked = FALSE]
    /\ UNCHANGED <<list, addOutcome, invoked, unlockInFlight>>

\* The process of caller p dies in the middle of a migrateTo.
crash(p) ==
    /\ pc[p] # "idle"
    /\ pc' = [pc EXCEPT ![p] = "idle"]
    /\ result' = [result EXCEPT ![p] = "crashed"]
    /\ background' = [background EXCEPT ![p] = FALSE]
    /\ loc' = [loc EXCEPT ![p] = Returned(loc[p])]
    /\ UNCHANGED <<list, addOutcome, control, invoked, unlockInFlight>>

\* The public unlock(): updateOne({_id}, {$set: {locked: false}}) is
\* issued and not awaited.
publicUnlock ==
    /\ Idle
    /\ ~unlockInFlight
    /\ unlockInFlight' = TRUE
    /\ UNCHANGED <<list, addOutcome, control, pc, loc, invoked, result,
                   background>>

\* The updateOne of the public unlock() takes effect (no upsert).
publicUnlockApplies ==
    /\ unlockInFlight
    /\ unlockInFlight' = FALSE
    /\ control' = IF control.exists THEN [control EXCEPT !.locked = FALSE]
                  ELSE control
    /\ UNCHANGED <<list, addOutcome, pc, loc, invoked, result, background>>

\* ------------------------------------------------------- specifications
Step(p) ==
    \/ getControl(p)
    \/ getControlUpsert(p)
    \/ lock(p)
    \/ migrateResolves(p)
    \/ migrateRejects(p)
    \/ updateVersion(p)
    \/ unlock(p)
    \/ backgroundSettles(p)
    \/ backgroundRejects(p)

\* One caller: registrations, migrateTo and getVersion calls one after the
\* other, and a process that may die in the middle of one.
Next ==
    \/ constructor
    \/ \E m \in AddArgs : add(m)
    \/ \E cmd \in Commands : migrateTo(1, cmd)
    \/ Step(1)
    \/ getVersion(1)
    \/ getVersionFind(1)
    \/ getVersionUpsert(1)
    \/ crash(1)

Spec == Init /\ [][Next]_vars

\* The lists add() can build: the sentinel, then up to MaxMigrations
\* migrations in ascending order of version.
Migration(version) ==
    [version |-> version, typeofVersion |-> "number",
     up |-> "function", down |-> "function"]

\* The ascending sequences of n versions.
Ascending(n) ==
    {f \in [1 .. n -> 1 .. MaxVersion] :
        \A j, k \in 1 .. n : j < k => f[j] <= f[k]}

Registries ==
    UNION {{<<defaultMigration>> \o [k \in 1 .. n |-> Migration(vs[k])] :
              vs \in Ascending(n)} : n \in 0 .. MaxMigrations}

\* The control documents earlier runs on a list can have left.
Controls(l) ==
    {NoControl} \cup
    [exists : {TRUE}, locked : BOOLEAN,
     version : {l[k].version : k \in 1 .. Len(l)}]

\* Two callers whose migrateTo and getVersion calls interleave at every
\* await, one call each, on any list and any control document; no unlock(), no reset(),
\* no crash.
InitConcurrent ==
    /\ list \in Registries
    /\ addOutcome = "none"
    /\ control \in Controls(list)
    /\ pc = [p \in Procs |-> "idle"]
    /\ loc = [p \in Procs |-> NoLoc]
    /\ invoked = [p \in Procs |-> <<>>]
    /\ result = [p \in Procs |-> "none"]
    /\ background = [p \in Procs |-> FALSE]
    /\ unlockInFlight = FALSE

NextConcurrent ==
    \/ \E p \in Procs, cmd \in Commands :
          result[p] = "none" /\ migrateTo(p, cmd)
    \/ \E p \in Procs : Step(p)
    \/ \E p \in Procs : result[p] = "none" /\ getVersion(p)
    \/ \E p \in Procs : getVersionFind(p)
    \/ \E p \in Procs : getVersionUpsert(p)

SpecConcurrent == InitConcurrent /\ [][NextConcurrent]_vars

\* One caller and the operator's unlock(), called between migrations.
NextUnlock ==
    \/ Next
    \/ publicUnlock
    \/ publicUnlockApplies

SpecUnlock == Init /\ [][NextUnlock]_vars

\* --------------------------------------------------- vocabulary of claims
\* The step at which the migrateTo of caller p settles (returns or throws).
Settles(p) ==
    /\ pc[p] \notin {"idle", "getVersion", "getVersionSet"}
    /\ pc'[p] = "idle" /\ result'[p] # "crashed"

\* The await of the running action ends otherwise than by resolving.
ActionFails(p) == pc[p] \in {"up", "down"} /\ Settles(p)

Registered(version) == \E k \in 0 .. Len(list) - 1 : At(k).version = version

Indexes == [k \in 1 .. Len(list) |-> k - 1]

Reverse(s) == [k \in 1 .. Len(s) |-> s[Len(s) + 1 - k]]

\* Every migration with version in (lo, hi], in list order.
Between(lo, hi) ==
    SelectSeq(Indexes, LAMBDA k : lo < At(k).version /\ At(k).version <= hi)

UpPath(lo, hi) ==
    [j \in 1 .. Len(Between(lo, hi)) |-> Invocation("up", Between(lo, hi)[j])]

DownPath(hi, lo) ==
    [j \in 1 .. Len(Between(lo, hi)) |->
        Invocation("down", Reverse(Between(lo, hi))[j])]

DistinctVersions ==
    \A j, k \in 0 .. Len(list) - 1 : At(j).version = At(k).version => j = k

\* The call of caller p was a plain (not rerun) migrateTo issued on an
\* unlocked or absent control record.
PlainOnUnlocked(p) == ~loc[p].rerun /\ ~loc[p].start.locked

\* ------------------------------------------------------------------- C2
\* C2: a migrateTo called while the control record has locked = true
\* returns without error, invokes no action and leaves the record's
\* version and locked fields as they were.
C2_LockedCallIsNoop ==
    \A p \in Procs :
        loc[p].start.locked =>
            /\ control = loc[p].start
            /\ invoked[p] = <<>>
            /\ result[p] \in {"none", "ok", "crashed"}
            /\ pc[p] \in {"idle", "getControl", "lock"}

C2_Witness ==
    /\ loc[1].start.locked
    /\ pc[1] = "idle" /\ result[1] = "ok"
    /\ loc[1].version # control.version
    /\ Registered(loc[1].version)

\* ------------------------------------------------------------------- C3
\* C3: a migrateTo(N), N registered, issued at recorded version 0 on an
\* unlocked record and with every action resolving, ends with version N,
\* locked = false, and has invoked the up of every registered migration
\* with version in (0, N] exactly once, in ascending order, and no down.
C3_UpWalkFromZero ==
    [][\A p \in Procs :
         (/\ Settles(p) /\ result'[p] = "ok"
          /\ PlainOnUnlocked(p)
          /\ loc[p].start.version = 0
          /\ Registered(loc[p].version))
         => /\ control' = setControl([version |-> loc[p].version,
                                      locked |-> FALSE])
            /\ invoked'[p] = UpPath(0, loc[p].version)]_vars

\* The same on registries whose versions are pairwise distinct.
C3_UpWalkDistinct ==
    [][\A p \in Procs :
         (/\ Settles(p) /\ result'[p] = "ok"
          /\ PlainOnUnlocked(p)
          /\ loc[p].start.version = 0
          /\ Registered(loc[p].version)
          /\ DistinctVersions)
         => /\ control' = setControl([version |-> loc[p].version,
                                      locked |-> FALSE])
            /\ invoked'[p] = UpPath(0, loc[p].version)]_vars

\* ------------------------------------------------------------------- C4
\* C4: a migrateTo(M), M < N both registered, issued at recorded version N
\* on an unlocked record and with every action resolving, ends with
\* version M, locked = false, and has invoked the down of every registered
\* migration with version in (M, N] exactly once, in descending order, and
\* no up.
C4_DownWalk ==
    [][\A p \in Procs :
         (/\ Settles(p) /\ result'[p] = "ok"
          /\ PlainOnUnlocked(p)
          /\ loc[p].start.exists
          /\ loc[p].version < loc[p].start.version
          /\ Registered(loc[p].start.version)
          /\ Registered(loc[p].version))
         => /\ control' = setControl([version |-> loc[p].version,
                                      locked |-> FALSE])
            /\ invoked'[p] = DownPath(loc[p].start.version, loc[p].version)
      ]_vars

\* The same on registries whose versions are pairwise distinct.
C4_DownWalkDistinct ==
    [][\A p \in Procs :
         (/\ Settles(p) /\ result'[p] = "ok"
          /\ PlainOnUnlocked(p)
          /\ loc[p].start.exists
          /\ loc[p].version < loc[p].start.version
          /\ Registered(loc[p].start.version)
          /\ Registered(loc[p].version)
          /\ DistinctVersions)
         => /\ control' = setControl([version |-> loc[p].version,
                                      locked |-> FALSE])
            /\ invoked'[p] = DownPath(loc[p].start.version, loc[p].version)
      ]_vars

\* ------------------------------------------------------------------- C5
\* The version getVersion() reports for a control record: 0 when absent.
Recorded(c) == IF c.exists THEN c.version ELSE 0

\* C5 as stated: a plain migrateTo whose target is the recorded version
\* invokes no action, leaves the version as it is and the record unlocked
\* when it returns, so that issuing it again changes nothing more.
C5_SameTargetUnlocks ==
    [][\A p \in Procs :
         (/\ Settles(p)
          /\ ~loc[p].rerun
          /\ loc[p].version = Recorded(loc[p].start))
         => /\ invoked'[p] = <<>>
            /\ control'.version = Recorded(loc[p].start)
            /\ ~control'.locked]_vars

\* C5 amended: the same for a call issued on a record that is not locked:
\* it returns without error and leaves exactly the record
\* {version: unchanged, locked: false}, which a repeated call maps to
\* itself.
C5_SameTargetOnUnlocked ==
    [][\A p \in Procs :
         (/\ Settles(p)
          /\ PlainOnUnlocked(p)
          /\ loc[p].version = Recorded(loc[p].start))
         => /\ invoked'[p] = <<>>
            /\ result'[p] = "ok"
            /\ control' = setControl([version |-> Recorded(loc[p].start),
                                      locked |-> FALSE])
            /\ (loc[p].start.exists => control' = loc[p].start)]_vars

C5_Witness ==
    /\ pc[1] = "idle" /\ result[1] = "ok"
    /\ PlainOnUnlocked(1) /\ loc[1].acquired
    /\ loc[1].start.exists
    /\ loc[1].version = loc[1].start.version
    /\ loc[1].version > 0
    /\ control = loc[1].start

\* ------------------------------------------------------------------- C6
LastInvoked(p) == invoked[p][Len(invoked[p])]

\* C6: when the action of a step fails, the walk attempts no further step,
\* migrateTo throws, and the recorded version is the one reached by the
\* last completed step: the predecessor in sorted order of a failed up,
\* the own version of a failed down.
C6_FailedStepStopsWalk ==
    [][\A p \in Procs :
         ActionFails(p)
         => /\ result'[p] = "error"
            /\ invoked'[p] = invoked[p]
            /\ control'.version =
                 IF LastInvoked(p).dir = "up"
                 THEN At(LastInvoked(p).idx - 1).version
                 ELSE LastInvoked(p).version]_vars

\* A walk of at least two steps has failed at its second or a later step.
C6_Witness ==
    /\ pc[1] = "idle" /\ result[1] = "error"
    /\ Len(invoked[1]) >= 2
    /\ control.version # loc[1].start.version
    /\ control.version # loc[1].version

\* ------------------------------------------------------------------- C7
\* C7 as stated: when the action of a step fails, the lock is released:
\* once migrateTo has thrown, locked = false.
C7_FailureReleasesLock ==
    [][\A p \in Procs : ActionFails(p) => ~control'.locked]_vars

\* C7 amended: when the action of a step fails, the lock is not released:
\* the failing call leaves the control record as it is, so that with one
\* caller the record still has locked = true once migrateTo has thrown,
\* and a migrateTo that then attempts the lock returns without migrating.
C7_FailureKeepsLock ==
    [][\A p \in Procs :
         /\ ActionFails(p)
            => (control' = control /\ control'.exists /\ control'.locked)
         /\ (pc[p] = "lock" /\ pc'[p] # "lock" /\ loc[p].start.locked
             /\ result'[p] # "crashed")
            => (pc'[p] = "idle" /\ result'[p] = "ok"
                /\ invoked'[p] = <<>> /\ control' = control)]_vars

\* A walk has failed and the next migrateTo has come back empty-handed.
C7_Witness ==
    /\ pc[1] = "idle" /\ result[1] = "ok"
    /\ loc[1].start.locked /\ control.locked
    /\ ~loc[1].acquired
    /\ invoked[1] = <<>>

\* ------------------------------------------------------------------- C9
\* C9: migrateTo("N,rerun") issued while the recorded version is N, N
\* registered, invokes the up of the migration with version N exactly
\* once, no other action, and leaves the recorded version at N.
C9_RerunInvokesOwnUp ==
    [][\A p \in Procs :
         (/\ Settles(p)
          /\ loc[p].rerun
          /\ ~loc[p].start.locked
          /\ loc[p].version = Recorded(loc[p].start)
          /\ Registered(loc[p].version))
         => /\ Len(invoked'[p]) = 1
            /\ invoked'[p][1].dir = "up"
            /\ invoked'[p][1].version = loc[p].version
            /\ control'.version = loc[p].version]_vars

Holding(p) ==
    pc[p] \in {"up", "down", "updateVersionUp", "updateVersionDown", "unlock"}

\* C1: of two migrateTo calls that run concurrently on the same control
\* record (absent or present when they are issued), at most one is
\* between a successful lock acquisition and its lock release at any time
\* (one winner of the walk), and the one that does not acquire the lock
\* returns without error and without invoking any action.
C1_OneLockHolder ==
    /\ ~(Holding(1) /\ Holding(2))
    /\ \A p \in Procs :
          (pc[p] = "idle" /\ result[p] # "none" /\ ~loc[p].acquired)
          => (result[p] = "ok" /\ invoked[p] = <<>>)

\* ------------------------------------------------------------------- C8
\* C8: with the control record left locked by an earlier run and no walk
\* in progress, a migrateTo issued after unlock() does not find the record
\* locked: it acquires the lock, and with a registered target and every
\* action resolving it ends at the target with locked = false.
C8_UnlockThenMigrate ==
    [][\A p \in Procs :
         (Settles(p) /\ loc[p].afterUnlock /\ loc[p].start.locked)
         => /\ loc'[p].acquired
            /\ (result'[p] = "ok" /\ ~loc[p].rerun
                /\ Registered(loc[p].version)
                /\ Registered(loc[p].start.version))
               => control' = setControl([version |-> loc[p].version,
                                         locked |-> FALSE])]_vars

\* ------------------------------------------------------------------ C11
\* C11: add of a migration whose version is already in the list throws and
\* leaves the list as it is, so the versions of the list stay pairwise
\* distinct.
C11_DuplicateAddRejected ==
    [][/\ \A m \in AddArgs :
            (m.typeofVersion = "number" /\ Registered(m.version) /\ add(m))
            => (addOutcome' \notin {"ok", "none"} /\ list' = list)
       /\ \A j, k \in 1 .. Len(list') :
            list'[j].version = list'[k].version => j = k]_vars

\* ------------------------------------------------------------------ C12
SortedAscending(l) ==
    \A j, k \in 1 .. Len(l) : j < k => l[j].version < l[k].version

Versions(inv) == [k \in 1 .. Len(inv) |-> inv[k].version]

Increasing(s) == \A j, k \in 1 .. Len(s) : j < k => s[j] < s[k]

\* C12: every add with a positive version not yet in the list makes
\* getNumberOfMigrations() one larger and keeps the migration; while the
\* versions are distinct the list is ascending by version with the
\* version-0 sentinel first, and the ups of a walk are invoked in ascending
\* order of version.
C12_SortedRegistry ==
    [][/\ addOutcome' = "ok" =>
            \A m \in AddArgs :
              (AddCheck(m) = "ok" /\ ~Registered(m.version) /\ add(m))
              => /\ Len(list') - 1 = getNumberOfMigrations + 1
                 /\ \E k \in 1 .. Len(list') : list'[k] = m
                 /\ \A j \in 1 .. Len(list) :
                      \E k \in 1 .. Len(list') : list'[k] = list[j]
       /\ (\A j, k \in 1 .. Len(list') :
              list'[j].version = list'[k].version => j = k)
          => /\ SortedAscending(list')
             /\ list'[1] = defaultMigration
             /\ \A p \in Procs :
                  (pc'[p] # "idle" /\ ~loc'[p].rerun)
                  => \/ invoked'[p] = <<>>
                     \/ /\ invoked'[p][1].dir = "up"
                        /\ Increasing(Versions(invoked'[p]))
                     \/ /\ invoked'[p][1].dir = "down"
                        /\ Increasing(Reverse(Versions(invoked'[p])))]_vars

\* Two migrations were added the larger version first, and a walk has gone
\* up through both.
C12_Witness ==
    /\ getNumberOfMigrations = 2 /\ DistinctVersions
    /\ pc[1] = "unlock" /\ ~loc[1].rerun
    /\ Len(invoked[1]) = 2 /\ invoked[1][1].dir = "up"

\* ------------------------------------------------------------------ C13
\* A getVersion() of caller p returns.
GetVersionReturns(p) ==
    /\ pc[p] \in {"getVersion", "getVersionSet"}
    /\ pc'[p] = "idle" /\ result'[p] = "ok"

\* C13: a getVersion() called with no control record returns 0 and leaves
\* the record {version: 0, locked: false}; called with a control record it
\* returns the record's version and changes nothing; it invokes no action.
C13_GetVersion ==
    [][\A p \in Procs :
         /\ GetVersionReturns(p)
            => /\ invoked'[p] = <<>>
               /\ list' = list
               /\ IF loc[p].before.exists
                  THEN /\ loc'[p].got = loc[p].before.version
                       /\ control' = loc[p].before
                  ELSE /\ loc'[p].got = 0
                       /\ control' = [exists |-> TRUE, version |-> 0,
                                      locked |-> FALSE]
         /\ (pc[p] \in {"getVersion", "getVersionSet"} /\ ~GetVersionReturns(p))
            => control' = control]_vars

\* getVersion() has returned 0 and created the record.
C13_WitnessCreated ==
    /\ pc[1] = "idle" /\ result[1] = "ok"
    /\ ~loc[1].before.exists /\ loc[1].got = 0
    /\ control = [exists |-> TRUE, version |-> 0, locked |-> FALSE]

\* getVersion() has returned the version of a locked record at version 2.
C13_ExistingReturned ==
    /\ pc[1] = "idle" /\ result[1] = "ok"
    /\ loc[1].before.exists /\ loc[1].before.locked
    /\ loc[1].got = 2 /\ control = loc[1].before

\* ------------------------------------------------------------------ C14
MaxRegistered ==
    CHOOSE v \in {list[k].version : k \in 1 .. Len(list)} :
        \A k \in 1 .. Len(list) : list[k].version <= v

\* The number a string of decimal digits denotes.
RECURSIVE Weighted(_, _)
Weighted(text, k) ==
    IF k > Len(text) THEN 0
    ELSE text[k] * 10 ^ (Len(text) - k) + Weighted(text, k + 1)

Denoted(cmd) ==
    IF cmd.kind = "latest" THEN MaxRegistered
    ELSE IF cmd.kind = "number" THEN cmd.version
    ELSE Weighted(cmd.text, 1)

\* C14: migrateTo('latest') targets the largest version in the list at the
\* call, a number or a string of digits targets the number it denotes; a
\* 'latest' issued on an unlocked record that returns without error leaves
\* the record at the largest version of the list.
C14_LatestTargetsMax ==
    /\ [](\A cmd \in Commands : TargetVersion(cmd) = Denoted(cmd))
    /\ [][\A p \in Procs :
            /\ (pc[p] = "idle" /\ pc'[p] = "getControl" /\ loc'[p].latest)
               => loc'[p].version = MaxRegistered /\ ~loc'[p].rerun
            /\ (/\ Settles(p) /\ result'[p] = "ok"
                /\ loc[p].latest /\ ~loc[p].start.locked
                /\ ~loc[p].concurrent)
               => control'.version = MaxRegistered]_vars

\* A 'latest' issued at version 0 has walked up two migrations to the
\* largest version.
C14_Witness ==
    /\ pc[1] = "idle" /\ result[1] = "ok"
    /\ loc[1].latest /\ ~loc[1].start.locked /\ loc[1].acquired
    /\ Len(invoked[1]) = 2
    /\ control.version = MaxRegistered /\ ~control.locked

\* ------------------------------------------------------------------ C15
\* The version the k-th invocation of caller p's walk leads to.
StepReaches(p, k) ==
    IF invoked[p][k].dir = "up" THEN invoked[p][k].version
    ELSE At(invoked[p][k].idx - 1).version

Walking(p) ==
    \/ pc[p] \in {"up", "down", "updateVersionUp", "updateVersionDown"}
    \/ pc[p] = "unlock" /\ ~loc[p].rerun /\ invoked[p] # <<>>

\* The version of the last step of caller p's walk whose action has
\* resolved and whose updateVersion() has taken effect; the version the
\* walk started from when there is none.
CompletedVersion(p) ==
    LET n == IF pc[p] = "unlock" THEN Len(invoked[p])
             ELSE Len(invoked[p]) - 1
    IN IF n = 0 THEN Recorded(loc[p].start) ELSE StepReaches(p, n)

WalkRecord ==
    \A p \in Procs :
        Walking(p) =>
            control = [exists |-> TRUE, locked |-> TRUE,
                       version |-> CompletedVersion(p)]

\* C15: all through a walk, and so whenever the next action is invoked, the
\* control record holds locked = true and the version reached by the last
\* step whose action resolved and whose version was saved; a process that
\* dies anywhere in the walk leaves the record at that version.
C15_VersionFollowsWalk ==
    [][/\ WalkRecord'
       /\ \A p \in Procs :
            (Walking(p) /\ pc'[p] = "idle" /\ result'[p] = "crashed")
            => control' = [exists |-> TRUE, locked |-> TRUE,
                           version |-> CompletedVersion(p)]]_vars

\* The second down of a walk is running: the record holds the version the
\* first down led to.
C15_Witness ==
    /\ pc[1] = "down" /\ Len(invoked[1]) = 2
    /\ control.locked /\ control.version = StepReaches(1, 1)
    /\ control.version # loc[1].start.version

\* The process died between two steps of an ascending walk.
C15_WitnessCrash ==
    /\ pc[1] = "idle" /\ result[1] = "crashed"
    /\ Len(invoked[1]) = 2 /\ invoked[1][1].dir = "up"
    /\ control.locked /\ control.version = invoked[1][1].version

\* ------------------------------------------------------------------ C16
\* The target or the recorded version of caller p's call is not in the list.
EndpointMissing(p) ==
    ~Registered(loc[p].version) \/ ~Registered(Recorded(loc[p].start))

\* C16 as stated: a migrateTo without rerun whose target, or whose recorded
\* version, is not a registered version throws, invokes no action and
\* leaves the recorded version as it is.
C16_MissingEndpointThrows ==
    [][\A p \in Procs :
         (Settles(p) /\ ~loc[p].rerun /\ ~loc[p].concurrent
          /\ EndpointMissing(p))
         => /\ result'[p] = "error"
            /\ invoked'[p] = <<>>
            /\ Recorded(control') = Recorded(loc[p].start)]_vars

\* C16: a migrateTo without rerun, issued by a single caller on a record
\* that is not locked, whose target differs from the recorded version and
\* whose target or recorded version is not a registered version, throws,
\* invokes no action and leaves the recorded version as it is.
C16_MissingEndpointOnUnlocked ==
    [][\A p \in Procs :
         (Settles(p) /\ PlainOnUnlocked(p) /\ ~loc[p].concurrent
          /\ EndpointMissing(p)
          /\ loc[p].version # Recorded(loc[p].start))
         => /\ result'[p] = "error"
            /\ invoked'[p] = <<>>
            /\ control'.exists
            /\ control'.version = Recorded(loc[p].start)]_vars

\* A call to a version that is not registered has thrown from a registered
\* version other than 0.
C16_Witness ==
    /\ pc[1] = "idle" /\ result[1] = "error"
    /\ PlainOnUnlocked(1) /\ loc[1].acquired
    /\ ~Registered(loc[1].version) /\ Registered(loc[1].start.version)
    /\ loc[1].start.version > 0
    /\ invoked[1] = <<>> /\ control.version = loc[1].start.version

\* A call to a registered version has thrown because the recorded version
\* is not in the list of this process.
C16_WitnessRecorded ==
    /\ pc[1] = "idle" /\ result[1] = "error"
    /\ PlainOnUnlocked(1) /\ loc[1].acquired
    /\ Registered(loc[1].version) /\ ~Registered(loc[1].start.version)
    /\ invoked[1] = <<>> /\ control.version = loc[1].start.version

\* A call whose target is the recorded version, neither in the list, has
\* returned without error.
C16_WitnessSameTarget ==
    /\ pc[1] = "idle" /\ result[1] = "ok"
    /\ PlainOnUnlocked(1) /\ loc[1].acquired
    /\ loc[1].start.exists /\ loc[1].version = loc[1].start.version
    /\ ~Registered(loc[1].version)

\* ------------------------------------------------------------------ C17
\* Caller p's walk invokes an action in this step.
Invokes(p) == Len(invoked'[p]) > Len(invoked[p]) /\ ~loc'[p].rerun

\* C17: under every interleaving of migrateTo calls, each up of a walk is
\* invoked while the control record holds the version of the list entry
\* before it, and each down while the record holds the version of its own
\* migration.
C17_ActionsStartInOrder ==
    [][\A p \in Procs :
         Invokes(p) =>
            LET e == invoked'[p][Len(invoked'[p])]
            IN IF e.dir = "up"
               THEN control'.version = At(e.idx - 1).version
               ELSE control'.version = e.version]_vars

\* ------------------------------------------------------------------ C18
\* An action caller p invoked has not settled: the awaited action of a
\* walk, or the up a rerun started.
ActionPending(p) == pc[p] \in {"up", "down"} \/ background[p]

\* C18: while an action that was invoked has not completed, the control
\* record has locked = true.
C18_LockedWhileActionRuns ==
    \A p \in Procs : ActionPending(p) => control.exists /\ control.locked

\* The same for the actions of walks alone.
C18_LockedWhileWalkRuns ==
    \A p \in Procs : pc[p] \in {"up", "down"} => control.exists /\ control.locked

\* ------------------------------------------------------------------ C19
\* The versions of the list are 0, 1, 2, ...: every version is its index.
Consecutive == \A k \in 0 .. Len(list) - 1 : At(k).version = k

\* A rerun of caller p, alone, issued on an unlocked record, returns.
RerunSettles(p) ==
    /\ Settles(p) /\ loc[p].rerun
    /\ ~loc[p].start.locked /\ ~loc[p].concurrent

C20_RerunMissingTargetThrows ==
    [][\A p \in Procs :
         (RerunSettles(p) /\ ~Registered(loc[p].version))
         => /\ result'[p] = "error"
            /\ invoked'[p] = <<>>]_vars

\* What such a rerun does instead: it returns without error.
C20_RerunMissingTargetReturns ==
    [][\A p \in Procs :
         (RerunSettles(p) /\ ~Registered(loc[p].version))
         => result'[p] = "ok"]_vars

\* ------------------------------------------------------------------ C21
\* An action invoked by caller p's call fails in this step.
StepFails(p) == migrateRejects(p) \/ backgroundRejects(p)

\* C21: when an action invoked by a migrateTo call fails, in a walk or in
\* a rerun, that call does not return successfully: it ends with the error
\* thrown to its caller.
C21_FailureIsThrown ==
    [][\A p \in Procs :
         StepFails(p) =>
            /\ result'[p] # "ok"
            /\ pc'[p] = "idle" => result'[p] = "error"]_vars

\* The same for the actions of walks alone.
C21_WalkFailureIsThrown ==
    [][\A p \in Procs :
         migrateRejects(p) => pc'[p] = "idle" /\ result'[p] = "error"]_vars

\* ------------------------------------------------------------------ C22
\* Every down caller p has invoked belongs to a migration above the
\* version-0 sentinel.
DownsAboveSentinel(p) ==
    \A k \in 1 .. Len(invoked[p]) :
        invoked[p][k].dir = "down"
        => invoked[p][k].idx > 0 /\ invoked[p][k].version > 0

\* C22: no walk invokes the down of the version-0 sentinel; a descending
\* walk to target 0 that returns without error has invoked downs of
\* migrations above 0 only, and leaves the record at version 0, unlocked.
C22_SentinelDownNeverInvoked ==
    [][\A p \in Procs :
         /\ DownsAboveSentinel(p)'
         /\ (/\ Settles(p) /\ result'[p] = "ok"
             /\ PlainOnUnlocked(p) /\ ~loc[p].concurrent
             /\ loc[p].version = 0
             /\ Recorded(loc[p].start) > 0)
            => /\ control' = [exists |-> TRUE, version |-> 0,
                              locked |-> FALSE]
               /\ invoked'[p] # <<>>
               /\ \A k \in 1 .. Len(invoked'[p]) :
                    invoked'[p][k].dir = "down"]_vars

\* A walk from the second migration down to 0 has returned: two downs, the
\* record at version 0.
C22_Witness ==
    /\ pc[1] = "idle" /\ result[1] = "ok"
    /\ PlainOnUnlocked(1) /\ loc[1].acquired
    /\ loc[1].version = 0 /\ loc[1].start.version > 0
    /\ Len(invoked[1]) = 2 /\ invoked[1][2].idx = 1
    /\ control.version = 0 /\ ~control.locked

\* C22's first half under interleaved calls.
C22_SentinelDownNeverInvokedConcurrent ==
    \A p \in Procs : DownsAboveSentinel(p)

\* ------------------------------------------------------------------ C23
\* The record is locked and no running call holds the lock.
Orphaned ==
    /\ control.exists /\ control.locked
    /\ \A p \in Procs : ~Holding(p)

\* The process of caller p dies in this step.
Dies(p) == pc[p] # "idle" /\ pc'[p] = "idle" /\ result'[p] = "crashed"

\* C23: a process that dies during its walk leaves the record locked at
\* the version it last saved; with no unlock() called, the record stays
\* as it is, and every migrateTo returns without error,
\* invokes nothing and acquires nothing.
C23_CrashedHolderKeepsLock ==
    [][/\ \A p \in Procs :
            (Walking(p) /\ Dies(p))
            => /\ control' = [exists |-> TRUE, locked |-> TRUE,
                              version |-> CompletedVersion(p)]
               /\ Orphaned'
       /\ Orphaned
          => /\ control' = control
             /\ Orphaned'
             /\ \A p \in Procs :
                  /\ invoked'[p] \in {invoked[p], <<>>}
                  /\ Settles(p) => result'[p] = "ok" /\ ~loc'[p].acquired
      ]_vars

\* The process died after the first down of a two-step walk: the record is
\* locked at the version that step led to.
C23_Witness ==
    /\ pc[1] = "idle" /\ result[1] = "crashed"
    /\ Len(invoked[1]) = 2 /\ invoked[1][1].dir = "down"
    /\ Orphaned
    /\ control.version = invoked[1][2].version

\* After a death that left the lock, a later migrateTo to another
\* registered version has returned and changed nothing.
C23_WitnessLaterCall ==
    /\ pc[1] = "idle" /\ result[1] = "ok"
    /\ Orphaned /\ loc[1].start = control /\ ~loc[1].acquired
    /\ Registered(loc[1].version) /\ loc[1].version # control.version
    /\ control.version > 0

\* ------------------------------------------------------------------ C24
\* The recorded version moves in this step.
VersionMoves == Recorded(control') # Recorded(control)

\* The step is the updateVersion() of a walk and takes the record from one
\* list entry's version to the next entry's, up or down.
MovesToNeighbour ==
    /\ \E p \in Procs :
         /\ pc[p] \in {"updateVersionUp", "updateVersionDown"}
         /\ pc'[p] # pc[p]
    /\ \E k \in 0 .. Len(list) - 2 :
         {Recorded(control), Recorded(control')}
            = {At(k).version, At(k + 1).version}

\* C24: under every interleaving of migrateTo calls, a call that returns
\* having invoked no action has not moved the recorded version, and the
\* recorded version only moves to a neighbouring registered version at the
\* updateVersion() that follows the action.
C24_VersionMovesOnlyByAction ==
    [][/\ \A p \in Procs :
            (Settles(p) /\ invoked'[p] = <<>>) => ~VersionMoves
       /\ VersionMoves => MovesToNeighbour]_vars

\* C24's first half alone, for calls issued on an existing record: a call
\* that returns having invoked no action has not moved the recorded
\* version.
C24_NoActionCallKeepsVersion ==
    [][\A p \in Procs :
         (Settles(p) /\ invoked'[p] = <<>> /\ loc[p].start.exists)
         => ~VersionMoves]_vars

\* ------------------------------------------------------------------ C25
\* The lazy creation of caller p's getControl takes effect in this step.
Creates(p) == getControlUpsert(p) \/ getVersionUpsert(p)

\* C25: the setControl with which a migrateTo or a getVersion() creates
\* the control record it found absent leaves a record that another call
\* has created in the meantime as it is: its version is not reset and its
\* locked flag is not cleared.
C25_CreationKeepsExistingRecord ==
    [][\A p \in Procs :
         (Creates(p) /\ control.exists)
         => /\ control'.version = control.version
            /\ control'.locked = control.locked]_vars

\* C25 for getVersion() alone.
C25_GetVersionKeepsExistingRecord ==
    [][\A p \in Procs :
         (getVersionUpsert(p) /\ control.exists)
         => /\ control'.version = control.version
            /\ control'.locked = control.locked]_vars

\* ------------------------------------------------------------------ C26
\* C26: a migrateTo that throws because its target is not a registered
\* version leaves the control record with locked = false.
C26_NotFoundReleasesLock ==
    [][\A p \in Procs :
         (/\ Settles(p) /\ result'[p] = "error"
          /\ PlainOnUnlocked(p) /\ ~loc[p].concurrent
          /\ ~Registered(loc[p].version))
         => control'.exists /\ ~control'.locked]_vars

\* What the code does instead: the record stays locked, at the version it
\* had.
C26_NotFoundKeepsLock ==
    [][\A p \in Procs :
         (/\ Settles(p) /\ result'[p] = "error"
          /\ PlainOnUnlocked(p) /\ ~loc[p].concurrent
          /\ ~Registered(loc[p].version))
         => control' = [exists |-> TRUE, locked |-> TRUE,
                        version |-> Recorded(loc[p].start)]]_vars

====
